---- MODULE Spec2Model ----
(***************************************************************************)
(* Model of streamlit_ui_v1.py: the document pipeline                     *)
(*   is_scanned_pdf -> full extraction -> get_document_class ->            *)
(*   get_document_analysis -> insert_document                              *)
(* run by process_document from main, with the Streamlit session state.   *)
(*                                                                         *)
(* Strings are run-length encoded: a text is a sequence of runs, each a   *)
(* block of n whitespace or n non-whitespace characters, so that len()    *)
(* and strip() are computed on texts longer than the 100-character        *)
(* threshold.  A model response is a sequence of tokens: "{", "}", a      *)
(* member ("key": value) and commentary that is not JSON.                 *)
(***************************************************************************)
EXTENDS Integers, Sequences, FiniteSets, TLC

VARIABLES
    uploaded,               \* the file in st.file_uploader (a document, or absent)
    results,                \* st.session_state.results
    processing,             \* st.session_state.processing
    pc,                     \* position of the script run
    clicked,                \* st.button("Analyze Document") returned True in this script run
    errors,                 \* st.error messages displayed in this script run
    calls,                  \* bedrock.invoke_model invocations of this run, in order
    inserts,                \* insert_document calls of this run
    extracted_text,         \* process_document local
    classification_result,  \* process_document local
    doc_class,              \* process_document local
    analysis_result,        \* process_document local
    ret,                    \* value returned by process_document
    infoShown,              \* st.info("Document analysis in progress...") displayed
    scanRes,                \* result of the is_scanned_pdf call of this run
    response,               \* outcome of the inference round trip handed to bedrock_calling
    parsed                  \* result of bedrock_calling applied alone

vars == <<uploaded, results, processing, pc, clicked, errors, calls, inserts,
          extracted_text, classification_result, doc_class, analysis_result,
          ret, infoShown, scanRes, response, parsed>>

(***************************************************************************)
(* Bounds of the model                                                     *)
(***************************************************************************)
MaxPages == 4          \* pages of a document in the scan-detection specification
MaxTextLen == 5        \* tokens of a response text in the parsing specification
MaxClassCode == 7      \* largest integer class code a classification response carries

(***************************************************************************)
(* Program constants                                                       *)
(***************************************************************************)
ScanPages == 3         \* pages_to_check = min(3, len(pdf.pages))
ScanThreshold == 100   \* len(text_content.strip()) > 100
NumCategories == 6     \* keys 0..5 of prompt_mapping / system_prompt_mapping

Min(a, b) == IF a < b THEN a ELSE b

(***************************************************************************)
(* Texts: run-length encoded strings                                       *)
(***************************************************************************)
WS(n) == [ws |-> TRUE, n |-> n]
CH(n) == [ws |-> FALSE, n |-> n]

RECURSIVE PyLen(_)
PyLen(t) == IF t = <<>> THEN 0 ELSE Head(t).n + PyLen(Tail(t))

RECURSIVE LStrip(_)
LStrip(t) == IF t = <<>> THEN <<>>
             ELSE IF Head(t).ws THEN LStrip(Tail(t)) ELSE t

RECURSIVE RStrip(_)
RStrip(t) == IF t = <<>> THEN <<>>
             ELSE IF t[Len(t)].ws THEN RStrip(SubSeq(t, 1, Len(t) - 1)) ELSE t

\* str.strip(): leading and trailing whitespace removed
PyStrip(t) == RStrip(LStrip(t))

(***************************************************************************)
(* Documents.  A page's extract_text() returns a text, returns None, or   *)
(* raises; pdfplumber.open raises on bytes it cannot read.                 *)
(***************************************************************************)
PText(t) == [kind |-> "text", text |-> t]
PNone == [kind |-> "none", text |-> <<>>]
PRaise == [kind |-> "raise", text |-> <<>>]

Doc(openable, pages) == [present |-> TRUE, openable |-> openable, pages |-> pages]
NoFile == [present |-> FALSE, openable |-> FALSE, pages |-> <<>>]

(***************************************************************************)
(* is_scanned_pdf (lines 55-90)                                            *)
(***************************************************************************)
\* mutant of pages_to_check: every page is sampled
pages_to_check_all(pdf) == Len(pdf.pages)

\* line 72
pages_to_check(pdf) == Min(ScanPages, Len(pdf.pages))

\* mutant of has_text: the sampled text is not stripped
has_text_unstripped(text_content) == PyLen(text_content) > ScanThreshold

\* mutant of has_text: the threshold itself counts as text
has_text_inclusive(text_content) == PyLen(PyStrip(text_content)) >= ScanThreshold

\* line 82
has_text(text_content) == PyLen(PyStrip(text_content)) > ScanThreshold

\* lines 75-79: the loop over pages i .. n (1-based here), accumulating text_content
RECURSIVE scan_loop(_, _, _, _)
scan_loop(pages, i, n, text_content) ==
    IF i > n THEN [exc |-> FALSE, text |-> text_content]
    ELSE LET page == pages[i] IN
         IF page.kind = "raise" THEN [exc |-> TRUE, text |-> text_content]
         ELSE IF page.kind = "text" /\ page.text # <<>>
              THEN scan_loop(pages, i + 1, n, text_content \o page.text)
              ELSE scan_loop(pages, i + 1, n, text_content)

\* lines 66-85: the body of the try
is_scanned_pdf_try(pdf_file) ==
    IF ~pdf_file.openable THEN [exc |-> TRUE, ret |-> FALSE]
    ELSE IF Len(pdf_file.pages) = 0 THEN [exc |-> FALSE, ret |-> TRUE]
    ELSE LET r == scan_loop(pdf_file.pages, 1, pages_to_check(pdf_file), <<>>) IN
         IF r.exc THEN [exc |-> TRUE, ret |-> FALSE]
         ELSE IF has_text(r.text) THEN [exc |-> FALSE, ret |-> FALSE]
         ELSE [exc |-> FALSE, ret |-> TRUE]

\* mutant of is_scanned_pdf: no except clause, the exception propagates
is_scanned_pdf_reraise(pdf_file) ==
    LET r == is_scanned_pdf_try(pdf_file) IN
    [exc |-> r.exc, ret |-> r.ret, error |-> FALSE]

\* lines 65-90: ret is the returned bool, error tells st.error("Error checking PDF")
\* was displayed; exc is never set, the except clause swallows every Exception
is_scanned_pdf(pdf_file) ==
    LET r == is_scanned_pdf_try(pdf_file) IN
    IF r.exc THEN [exc |-> FALSE, ret |-> TRUE, error |-> TRUE]
    ELSE [exc |-> FALSE, ret |-> r.ret, error |-> FALSE]

(***************************************************************************)
(* Full extraction (lines 252-254)                                         *)
(***************************************************************************)
\* page.extract_text() or ""
text_or_empty(page) == IF page.kind = "text" THEN page.text ELSE <<>>

\* "\n".join(...)
RECURSIVE join_newline(_)
join_newline(pages) ==
    IF pages = <<>> THEN <<>>
    ELSE IF Len(pages) = 1 THEN text_or_empty(pages[1])
    ELSE text_or_empty(pages[1]) \o <<WS(1)>> \o join_newline(Tail(pages))

extract_all(pdf_file) ==
    IF ~pdf_file.openable \/ \E i \in 1..Len(pdf_file.pages) : pdf_file.pages[i].kind = "raise"
    THEN [exc |-> TRUE, text |-> <<>>]
    ELSE [exc |-> FALSE, text |-> join_newline(pdf_file.pages)]

(***************************************************************************)
(* Response texts and json.loads                                           *)
(***************************************************************************)
V(kind, val) == [kind |-> kind, val |-> val]
PyNone == V("none", 0)
LB == [t |-> "{", k |-> "", v |-> PyNone]
RB == [t |-> "}", k |-> "", v |-> PyNone]
JUNK == [t |-> "x", k |-> "", v |-> PyNone]   \* commentary, not JSON
Mem(k, v) == [t |-> "m", k |-> k, v |-> v]     \* a member "k": v
NestedMem == Mem("nested", V("dict", 0))       \* a member whose value is an object

\* str.find / str.rfind: 0-based index, -1 when absent
PyFind(text, c) ==
    IF \E i \in 1..Len(text) : text[i].t = c
    THEN (CHOOSE i \in 1..Len(text) :
              text[i].t = c /\ \A j \in 1..(i - 1) : text[j].t # c) - 1
    ELSE -1

PyRFind(text, c) ==
    IF \E i \in 1..Len(text) : text[i].t = c
    THEN (CHOOSE i \in 1..Len(text) :
              text[i].t = c /\ \A j \in (i + 1)..Len(text) : text[j].t # c) - 1
    ELSE -1

\* text[start:end]: a negative index counts from the end, then both are clamped
PyIndex(i, n) == LET j == IF i < 0 THEN i + n ELSE i IN
                 IF j < 0 THEN 0 ELSE IF j > n THEN n ELSE j

PySlice(text, start, end) ==
    LET s == PyIndex(start, Len(text))
        e == PyIndex(end, Len(text))
    IN IF s < e THEN SubSeq(text, s + 1, e) ELSE <<>>

Depth(s, i) == Cardinality({j \in 1..i : s[j].t = "{"}) - Cardinality({j \in 1..i : s[j].t = "}"})

\* json.loads accepts exactly one object: it opens with "{", the brace that
\* closes it is the last character, and nothing inside is commentary
JsonValid(s) ==
    /\ Len(s) >= 2
    /\ s[1].t = "{"
    /\ \A i \in 1..Len(s) : s[i].t # "x"
    /\ \A i \in 1..(Len(s) - 1) : Depth(s, i) > 0
    /\ Depth(s, Len(s)) = 0

\* the dict json.loads builds: the members of the outer object, in order
RECURSIVE TopMembers(_, _)
TopMembers(s, d) ==
    IF s = <<>> THEN <<>>
    ELSE LET h == Head(s) IN
         IF h.t = "{" THEN (IF d = 1 THEN <<NestedMem>> ELSE <<>>) \o TopMembers(Tail(s), d + 1)
         ELSE IF h.t = "}" THEN TopMembers(Tail(s), d - 1)
         ELSE IF d = 1 THEN <<h>> \o TopMembers(Tail(s), d)
         ELSE TopMembers(Tail(s), d)

json_loads(s) == IF JsonValid(s) THEN [exc |-> FALSE, obj |-> TopMembers(s, 0)]
                 ELSE [exc |-> TRUE, obj |-> <<>>]

\* dict.get(key): the last member with that key wins, None when absent
DictGet(obj, key) ==
    IF \E i \in 1..Len(obj) : obj[i].k = key
    THEN obj[CHOOSE i \in 1..Len(obj) :
                 obj[i].k = key /\ \A j \in (i + 1)..Len(obj) : obj[j].k # key].v
    ELSE PyNone

(***************************************************************************)
(* bedrock_calling (lines 107-166)                                         *)
(***************************************************************************)
\* the outcome of the round trip: what the environment does to one call
SetupRaise == [kind |-> "setup_raise", text |-> <<>>]     \* lines 121-145 raise
InvokeRaise == [kind |-> "invoke_raise", text |-> <<>>]   \* invoke_model raises
BodyRaise == [kind |-> "body_raise", text |-> <<>>]       \* lines 155-156 raise
Text(t) == [kind |-> "text", text |-> t]                  \* response_text = t

ErrorObj(msg) == <<Mem("error", V("str", msg))>>

\* mutant of brace_span: the closing brace is left out of the slice
brace_span_short(response_text) ==
    PySlice(response_text, PyFind(response_text, "{"), PyRFind(response_text, "}"))

\* mutant of brace_span: the slice ends at the first closing brace
brace_span_first_close(response_text) ==
    PySlice(response_text, PyFind(response_text, "{"), PyFind(response_text, "}") + 1)

\* lines 159-161
brace_span(response_text) ==
    PySlice(response_text, PyFind(response_text, "{"), PyRFind(response_text, "}") + 1)

\* failed: the except clause ran (st.error displayed, {"error": str(e)} returned);
\* invoked: bedrock.invoke_model was called; cause names what raised
bedrock_calling(outcome) ==
    IF outcome.kind = "setup_raise"
    THEN [failed |-> TRUE, cause |-> "setup", invoked |-> FALSE, obj |-> ErrorObj(1)]
    ELSE IF outcome.kind = "invoke_raise"
    THEN [failed |-> TRUE, cause |-> "transport", invoked |-> TRUE, obj |-> ErrorObj(2)]
    ELSE IF outcome.kind = "body_raise"
    THEN [failed |-> TRUE, cause |-> "malformed", invoked |-> TRUE, obj |-> ErrorObj(3)]
    ELSE LET r == json_loads(brace_span(outcome.text)) IN
         IF r.exc
         THEN [failed |-> TRUE, cause |-> "malformed", invoked |-> TRUE, obj |-> ErrorObj(4)]
         ELSE [failed |-> FALSE, cause |-> "ok", invoked |-> TRUE, obj |-> r.obj]

(***************************************************************************)
(* get_document_class (lines 168-183), get_document_analysis (185-224)     *)
(***************************************************************************)
get_document_class(outcome) == bedrock_calling(outcome)

Categories == 0..(NumCategories - 1)

\* lines 197-204
prompt_mapping ==
    [k \in Categories |->
        CASE k = 0 -> "user_prompt_poi"
          [] k = 1 -> "user_prompt_poa"
          [] k = 2 -> "user_prompt_registration"
          [] k = 3 -> "user_prompt_ownership"
          [] k = 4 -> "user_prompt_tax_return"
          [] OTHER -> "user_prompt_financial"]

\* lines 206-213
system_prompt_mapping ==
    [k \in Categories |->
        CASE k = 0 -> "system_prompt_for_indentity_doc"
          [] k = 1 -> "system_prompt_for_poa_doc"
          [] k = 2 -> "system_prompt_for_registration_doc"
          [] k = 3 -> "system_prompt_for_ownership_doc"
          [] k = 4 -> "system_prompt_for_tax_return_doc"
          [] OTHER -> "system_prompt_for_financial_doc"]

\* a list or a dict is unhashable: "x in dict" raises TypeError
Unhashable(v) == v.kind \in {"list", "dict"}

\* mutant of in_prompt_mapping: a missing or unknown class passes the check
in_prompt_mapping_any(v) == TRUE

\* "doc_class in prompt_mapping": hash and equality of the key; True == 1 and
\* False == 0 in Python, a string or None equals no integer key
in_prompt_mapping(v) == v.kind \in {"int", "bool"} /\ v.val \in DOMAIN prompt_mapping

\* mutant of prompt_key: the first category whatever the class is
prompt_key_default(v) == 0

\* the key prompt_mapping[doc_class] resolves to
prompt_key(v) == v.val

NoCall == [purpose |-> "none", user_prompt |-> "", system_prompt |-> ""]

\* exc: an exception leaves the function; call: the request sent, NoCall if none
get_document_analysis(dc, outcome) ==
    IF Unhashable(dc)
    THEN [exc |-> TRUE, error |-> FALSE, call |-> NoCall,
          result |-> [failed |-> TRUE, cause |-> "type_error", invoked |-> FALSE, obj |-> <<>>]]
    ELSE IF ~in_prompt_mapping(dc)
    THEN [exc |-> FALSE, error |-> TRUE, call |-> NoCall,
          result |-> [failed |-> TRUE, cause |-> "invalid_class", invoked |-> FALSE,
                      obj |-> ErrorObj(5)]]
    ELSE IF prompt_key(dc) \notin DOMAIN prompt_mapping     \* KeyError at line 219
    THEN [exc |-> TRUE, error |-> FALSE, call |-> NoCall,
          result |-> [failed |-> TRUE, cause |-> "key_error", invoked |-> FALSE, obj |-> <<>>]]
    ELSE LET r == bedrock_calling(outcome) IN
         [exc |-> FALSE, error |-> FALSE,
          call |-> IF r.invoked
                   THEN [purpose |-> "analyze",
                         user_prompt |-> prompt_mapping[prompt_key(dc)],
                         system_prompt |-> system_prompt_mapping[prompt_key(dc)]]
                   ELSE NoCall,
          result |-> r]

(***************************************************************************)
(* insert_document (lines 92-105).  The shipped body is a stand-in that    *)
(* returns a timestamp id; its docstring names the database integration    *)
(* that takes its place, whose call can raise.                             *)
(***************************************************************************)
InsertOutcomes == {"ok", "raise"}

insert_document(outcome) ==
    IF outcome = "raise" THEN [exc |-> TRUE, id |-> ""]
    ELSE [exc |-> FALSE, id |-> "doc_timestamp"]

(***************************************************************************)
(* Inputs of the pipeline specification                                    *)
(***************************************************************************)
DocCorrupt == Doc(FALSE, <<>>)
DocEmpty == Doc(TRUE, <<>>)
DocShort == Doc(TRUE, <<PText(<<CH(20)>>)>>)
DocLong == Doc(TRUE, <<PText(<<CH(101)>>)>>)
DocMulti == Doc(TRUE, <<PText(<<CH(60)>>), PNone, PText(<<WS(1), CH(60)>>), PText(<<CH(5)>>)>>)
DocBadSample == Doc(TRUE, <<PText(<<CH(200)>>), PRaise>>)
DocBadTail == Doc(TRUE, <<PText(<<CH(101)>>), PNone, PNone, PRaise>>)
DocLateText == Doc(TRUE, <<PNone, PNone, PNone, PText(<<CH(500)>>)>>)

PipeDocs == {DocCorrupt, DocEmpty, DocShort, DocLong, DocMulti, DocBadSample,
             DocBadTail, DocLateText}

Label == V("str", 1)

ClassVals == {V("int", n) : n \in (-1)..MaxClassCode}
                 \cup {V("bool", 1), V("str", 1), V("list", 0), PyNone}

ClassifyTexts ==
    {<<JUNK, LB, Mem("class", c), Mem("category", Label), RB, JUNK>> : c \in ClassVals}
        \cup {<<LB, Mem("category", Label), RB>>,
              <<LB, Mem("class", V("int", 0)), RB>>,
              <<JUNK>>,
              <<RB, LB>>,
              <<LB, JUNK, RB>>,
              <<LB, Mem("class", V("int", 0)), RB, LB, RB>>}

ClassifyOutcomes == {SetupRaise, InvokeRaise, BodyRaise} \cup {Text(t) : t \in ClassifyTexts}

AnalyzeTexts ==
    {<<JUNK, LB, Mem("summary", V("str", 1)), LB, Mem("name", V("str", 2)), RB, RB>>,
     <<LB, RB>>,
     <<JUNK>>}

AnalyzeOutcomes == {SetupRaise, InvokeRaise, BodyRaise} \cup {Text(t) : t \in AnalyzeTexts}

(***************************************************************************)
(* State                                                                   *)
(***************************************************************************)
Unset == [failed |-> FALSE, cause |-> "unset", invoked |-> FALSE, obj |-> <<>>]
RetPending == [kind |-> "pending", document_type |-> PyNone, analysis |-> <<>>, mongo_obj_id |-> ""]
RetNone == [kind |-> "none", document_type |-> PyNone, analysis |-> <<>>, mongo_obj_id |-> ""]
Record(document_type, analysis, id) ==
    [kind |-> "record", document_type |-> document_type, analysis |-> analysis,
     mongo_obj_id |-> id]

NoScan == [exc |-> FALSE, ret |-> FALSE, error |-> FALSE]

\* lines 49-53, before any interaction
InitCommon ==
    /\ results = RetNone
    /\ processing = FALSE
    /\ clicked = FALSE
    /\ errors = {}
    /\ calls = <<>>
    /\ inserts = 0
    /\ extracted_text = <<>>
    /\ classification_result = Unset
    /\ doc_class = PyNone
    /\ analysis_result = Unset
    /\ ret = RetPending
    /\ infoShown = FALSE
    /\ scanRes = NoScan
    /\ parsed = Unset

Init ==
    /\ InitCommon
    /\ uploaded = NoFile
    /\ response = SetupRaise
    /\ pc = "idle"

\* a script run starts with no locals and an empty page
FreshRun ==
    /\ errors' = {}
    /\ calls' = <<>>
    /\ inserts' = 0
    /\ extracted_text' = <<>>
    /\ classification_result' = Unset
    /\ doc_class' = PyNone
    /\ analysis_result' = Unset
    /\ ret' = RetPending
    /\ scanRes' = NoScan

pure == <<response, parsed>>

(***************************************************************************)
(* main (lines 369-418) and process_document (lines 226-283)               *)
(***************************************************************************)
\* the user puts a file in the uploader, or removes it: the script reruns, button not clicked
Upload(d) ==
    /\ pc = "idle"
    /\ uploaded' = d
    /\ clicked' = FALSE
    /\ FreshRun
    /\ pc' = "main_tail"
    /\ UNCHANGED <<results, processing, infoShown, pure>>

\* lines 399-410 and 236-243: the button is clicked with a file present
ClickAnalyze ==
    /\ pc = "idle"
    /\ uploaded.present
    /\ clicked' = TRUE
    /\ FreshRun
    /\ processing' = TRUE
    /\ pc' = "pd_scan"
    /\ UNCHANGED <<uploaded, results, infoShown, pure>>

\* mutant of processing_after_except: the handler leaves the flag set
processing_after_except_stuck == TRUE

\* line 282
processing_after_except == FALSE

\* mutant of caught_by_process_document: the call is outside the try
caught_nowhere(where) == FALSE

\* lines 236, 280: every statement of the body is inside the try
caught_by_process_document(where) == where \in {"scan", "extract", "classify", "analyze", "insert"}

\* lines 280-283; an exception no handler catches leaves process_document
Raise(where) ==
    IF caught_by_process_document(where)
    THEN /\ errors' = errors \cup {"processing"}
         /\ processing' = processing_after_except
         /\ ret' = RetNone
         /\ pc' = "returned"
    ELSE /\ pc' = "crashed"
         /\ UNCHANGED <<errors, processing, ret>>

\* mutant of scanned_branch: the test is inverted
scanned_branch_inverted(r) == ~r.ret

\* line 246: if is_scanned_pdf(pdf_file)
scanned_branch(r) == r.ret

\* lines 245-249
CheckScanned ==
    /\ pc = "pd_scan"
    /\ scanRes' = is_scanned_pdf(uploaded)
    /\ LET r == is_scanned_pdf(uploaded) IN
       IF r.exc THEN Raise("scan")
       ELSE IF scanned_branch(r)
       THEN /\ errors' = errors \cup (IF r.error THEN {"check_pdf"} ELSE {}) \cup {"scanned"}
            /\ processing' = FALSE
            /\ ret' = RetNone
            /\ pc' = "returned"
       ELSE /\ pc' = "pd_extract"
            /\ UNCHANGED <<errors, processing, ret>>
    /\ UNCHANGED <<uploaded, results, clicked, calls, inserts, extracted_text,
                   classification_result, doc_class, analysis_result, infoShown, pure>>

\* lines 251-258
ExtractText ==
    /\ pc = "pd_extract"
    /\ LET r == extract_all(uploaded) IN
       IF r.exc THEN Raise("extract") /\ UNCHANGED extracted_text
       ELSE /\ extracted_text' = r.text
            /\ pc' = "pd_classify"
            /\ UNCHANGED <<errors, processing, ret>>
    /\ UNCHANGED <<uploaded, results, clicked, calls, inserts,
                   classification_result, doc_class, analysis_result, infoShown, scanRes, pure>>

\* lines 260-262
Classify(outcome) ==
    /\ pc = "pd_classify"
    /\ LET r == get_document_class(outcome) IN
       /\ classification_result' = r
       /\ doc_class' = DictGet(r.obj, "class")
       /\ calls' = IF r.invoked
                   THEN Append(calls, [purpose |-> "classify",
                                       user_prompt |-> "user_prompt_classification",
                                       system_prompt |-> "system_prompt_for_doc_classification"])
                   ELSE calls
       /\ errors' = IF r.failed THEN errors \cup {"bedrock"} ELSE errors
    /\ pc' = "pd_analyze"
    /\ UNCHANGED <<uploaded, results, processing, clicked, inserts, extracted_text,
                   analysis_result, ret, infoShown, scanRes, pure>>

\* lines 264-265
Analyze(outcome) ==
    /\ pc = "pd_analyze"
    /\ LET g == get_document_analysis(doc_class, outcome) IN
       IF g.exc THEN Raise("analyze") /\ UNCHANGED <<calls, analysis_result>>
       ELSE /\ analysis_result' = g.result
            /\ calls' = IF g.call = NoCall THEN calls ELSE Append(calls, g.call)
            /\ errors' = errors \cup (IF g.error THEN {"invalid_class"} ELSE {})
                                \cup (IF g.result.failed /\ ~g.error THEN {"bedrock"} ELSE {})
            /\ pc' = "pd_insert"
            /\ UNCHANGED <<processing, ret>>
    /\ UNCHANGED <<uploaded, results, clicked, inserts, extracted_text,
                   classification_result, doc_class, infoShown, scanRes, pure>>

\* lines 267-278
Insert(outcome) ==
    /\ pc = "pd_insert"
    /\ inserts' = inserts + 1
    /\ LET r == insert_document(outcome) IN
       IF r.exc THEN Raise("insert")
       ELSE /\ ret' = Record(DictGet(classification_result.obj, "category"),
                             analysis_result.obj, r.id)
            /\ processing' = FALSE
            /\ pc' = "returned"
            /\ UNCHANGED errors
    /\ UNCHANGED <<uploaded, results, clicked, calls, extracted_text,
                   classification_result, doc_class, analysis_result, infoShown, scanRes, pure>>

\* line 410: st.session_state.results = process_document(uploaded_file)
MainAssign ==
    /\ pc = "returned"
    /\ results' = ret
    /\ pc' = "main_tail"
    /\ UNCHANGED <<uploaded, processing, clicked, errors, calls, inserts, extracted_text,
                   classification_result, doc_class, analysis_result, ret, infoShown, scanRes, pure>>

\* lines 412-418: the results are displayed, then the in-progress check
MainTail ==
    /\ pc = "main_tail"
    /\ infoShown' = processing
    /\ pc' = "idle"
    /\ UNCHANGED <<uploaded, results, processing, clicked, errors, calls, inserts,
                   extracted_text, classification_result, doc_class, analysis_result,
                   ret, scanRes, pure>>

Next ==
    \/ \E d \in PipeDocs \cup {NoFile} : Upload(d)
    \/ ClickAnalyze
    \/ CheckScanned
    \/ ExtractText
    \/ \E o \in ClassifyOutcomes : Classify(o)
    \/ \E o \in AnalyzeOutcomes : Analyze(o)
    \/ \E o \in InsertOutcomes : Insert(o)
    \/ MainAssign
    \/ MainTail

Spec == Init /\ [][Next]_vars

(***************************************************************************)
(* Scan detection applied to every document of the bounded input set       *)
(***************************************************************************)
ScanPageVals ==
    {PNone, PRaise, PText(<<>>), PText(<<WS(2)>>), PText(<<CH(50)>>), PText(<<CH(51)>>),
     PText(<<CH(100)>>), PText(<<WS(1), CH(49), WS(1)>>)}

SeqsUpTo(S, n) == UNION {[1..k -> S] : k \in 0..n}

ScanDocs == {Doc(TRUE, ps) : ps \in SeqsUpTo(ScanPageVals, MaxPages)} \cup {DocCorrupt}

InitScan ==
    /\ InitCommon
    /\ uploaded \in ScanDocs
    /\ response = SetupRaise
    /\ pc = "scan_input"

ApplyScan ==
    /\ pc = "scan_input"
    /\ scanRes' = is_scanned_pdf(uploaded)
    /\ pc' = "scan_done"
    /\ UNCHANGED <<uploaded, results, processing, clicked, errors, calls, inserts,
                   extracted_text, classification_result, doc_class, analysis_result,
                   ret, infoShown, response, parsed>>

NextScan == ApplyScan

SpecScan == InitScan /\ [][NextScan]_vars

(***************************************************************************)
(* bedrock_calling applied to every response of the bounded input set      *)
(***************************************************************************)
ParseToks == {LB, RB, JUNK, Mem("class", V("int", 0))}

ParseOutcomes == {SetupRaise, InvokeRaise, BodyRaise}
                     \cup {Text(t) : t \in SeqsUpTo(ParseToks, MaxTextLen)}

InitParse ==
    /\ InitCommon
    /\ uploaded = NoFile
    /\ response \in ParseOutcomes
    /\ pc = "parse_input"

ApplyParse ==
    /\ pc = "parse_input"
    /\ parsed' = bedrock_calling(response)
    /\ pc' = "parse_done"
    /\ UNCHANGED <<uploaded, results, processing, clicked, errors, calls, inserts,
                   extracted_text, classification_result, doc_class, analysis_result,
                   ret, infoShown, scanRes, response>>

NextParse == ApplyParse

SpecParse == InitParse /\ [][NextParse]_vars

(***************************************************************************)
(* Properties                                                              *)
(***************************************************************************)
InRun == {"pd_scan", "pd_extract", "pd_classify", "pd_analyze", "pd_insert"}
AfterRun == {"returned", "main_tail", "idle"}

AnalysisCalls == {i \in 1..Len(calls) : calls[i].purpose = "analyze"}
ClassifyCalls == {i \in 1..Len(calls) : calls[i].purpose = "classify"}

\* C1: when the classification call raised a transport error or its response had no
\* parseable payload, the run sends no analysis request: the inference service is
\* invoked exactly once in that run.
C1_FailedClassificationStopsInference ==
    classification_result.cause \in {"transport", "malformed"} =>
        /\ AnalysisCalls = {}
        /\ Len(calls) = 1

C1_Witness ==
    /\ pc = "returned"
    /\ classification_result.cause = "malformed"
    /\ Len(calls) = 1
    /\ inserts = 1

\* C2: process_document returns a record, and main stores one in the session
\* results, only when both the classification call and the analysis call succeeded.
C2_NoPartialResult ==
    /\ ret.kind = "record" => (~classification_result.failed /\ ~analysis_result.failed)
    /\ (clicked /\ pc \in {"main_tail", "idle"} /\ results.kind = "record") =>
           (~classification_result.failed /\ ~analysis_result.failed)

\* C3: when scan detection yields Scanned the run ends in the scanned rejection with
\* no record, no inference call and no insert_document call.
C3_ScannedRejectedWithoutCalls ==
    (clicked /\ pc # "pd_scan" /\ scanRes.ret) =>
        /\ pc \in AfterRun
        /\ ret.kind = "none"
        /\ "scanned" \in errors
        /\ calls = <<>>
        /\ inserts = 0
        /\ (pc \in {"main_tail", "idle"} => results.kind = "none")

C3_Witness ==
    /\ pc = "main_tail"
    /\ clicked
    /\ uploaded = DocShort
    /\ scanRes.ret
    /\ results.kind = "none"
    /\ calls = <<>>

\* the classification call succeeded and its object has no category code in 0..5
InvalidClass ==
    /\ classification_result.cause = "ok"
    /\ ~(doc_class.kind = "int" /\ doc_class.val \in 0..5)

\* C4: when the classification object lacks the numeric category code or the code
\* is outside 0..5, the run fails with an invalid-classification error (no record)
\* and no category prompt is sent.
C4_InvalidClassFailsRun ==
    (pc \in AfterRun /\ clicked /\ InvalidClass) =>
        /\ ret.kind = "none"
        /\ AnalysisCalls = {}

\* C5: at most one classification request and at most one analysis request per run;
\* an analysis request follows a classification request that returned an object, and
\* its prompt pair is the one keyed by the class code of that object.
C5_SequentialCallsKeyedByClass ==
    /\ Len(calls) <= 2
    /\ Cardinality(ClassifyCalls) <= 1
    /\ Cardinality(AnalysisCalls) <= 1
    /\ pc \in {"pd_scan", "pd_extract", "pd_classify"} => AnalysisCalls = {}
    /\ \A i \in AnalysisCalls :
           /\ i = 2
           /\ calls[1].purpose = "classify"
           /\ classification_result.cause = "ok"
           /\ LET c == DictGet(classification_result.obj, "class") IN
              /\ c.kind \in {"int", "bool"}
              /\ c.val \in 0..5
              /\ calls[i].user_prompt = prompt_mapping[c.val]
              /\ calls[i].system_prompt = system_prompt_mapping[c.val]

C5_Witness ==
    /\ pc = "returned"
    /\ Len(calls) = 2
    /\ calls[2].user_prompt = "user_prompt_tax_return"
    /\ calls[2].system_prompt = "system_prompt_for_tax_return_doc"
    /\ analysis_result.cause = "transport"

\* the text of the first min(3, pageCount) pages, concatenated
RECURSIVE SampledText(_, _)
SampledText(pages, n) ==
    IF n = 0 \/ pages = <<>> THEN <<>>
    ELSE (IF Head(pages).kind = "text" THEN Head(pages).text ELSE <<>>)
             \o SampledText(Tail(pages), n - 1)

RECURSIVE RunSum(_, _, _)
RunSum(t, i, j) == IF i > j THEN 0 ELSE t[i].n + RunSum(t, i + 1, j)

\* length of t without its leading and trailing whitespace
TrimmedLen(t) ==
    LET ink == {i \in 1..Len(t) : ~t[i].ws} IN
    IF ink = {} THEN 0
    ELSE RunSum(t, CHOOSE i \in ink : \A j \in ink : i <= j,
                   CHOOSE i \in ink : \A j \in ink : i >= j)

SampleReadable(d) ==
    /\ d.openable
    /\ \A i \in 1..Len(d.pages) : i <= 3 => d.pages[i].kind # "raise"

\* C6: for a document whose sampled pages can be read, is_scanned_pdf returns Scanned
\* exactly when it has zero pages or the trimmed text of its first min(3, pageCount)
\* pages has length <= 100, whatever the later pages hold.
C6_ScanDetection ==
    (pc = "scan_done" /\ SampleReadable(uploaded)) =>
        (scanRes.ret <=> (Len(uploaded.pages) = 0
                              \/ TrimmedLen(SampledText(uploaded.pages, 3)) <= 100))

C6_Witness ==
    /\ pc = "scan_done"
    /\ SampleReadable(uploaded)
    /\ Len(uploaded.pages) = 4
    /\ uploaded.pages[4].kind = "raise"
    /\ PyLen(SampledText(uploaded.pages, 3)) = 103
    /\ TrimmedLen(SampledText(uploaded.pages, 3)) = 101
    /\ ~scanRes.ret

Opens(t) == {i \in 1..Len(t) : t[i].t = "{"}
Closes(t) == {i \in 1..Len(t) : t[i].t = "}"}
FirstOpen(t) == CHOOSE i \in Opens(t) : \A j \in Opens(t) : i <= j
LastClose(t) == CHOOSE i \in Closes(t) : \A j \in Closes(t) : i >= j
HasBracePair(t) == Opens(t) # {} /\ Closes(t) # {} /\ FirstOpen(t) < LastClose(t)

\* C7: bedrock_calling parses exactly the substring from the first "{" to the last
\* "}"; with no such pair, or when that substring does not parse, it takes the
\* failure path and returns nothing built from the text.
C7_BraceSpanParsed ==
    (pc = "parse_done" /\ response.kind = "text") =>
        LET t == response.text IN
        IF HasBracePair(t) /\ JsonValid(SubSeq(t, FirstOpen(t), LastClose(t)))
        THEN /\ ~parsed.failed
             /\ parsed.obj = TopMembers(SubSeq(t, FirstOpen(t), LastClose(t)), 0)
        ELSE /\ parsed.failed
             /\ parsed.cause = "malformed"
             /\ parsed.obj = ErrorObj(4)

C7_Witness ==
    /\ pc = "parse_done"
    /\ response.kind = "text"
    /\ Len(response.text) = 5
    /\ response.text[1].t = "x"
    /\ response.text[5].t = "x"
    /\ ~parsed.failed
    /\ Len(parsed.obj) = 1

ScanDetectionFails(d) ==
    \/ ~d.openable
    \/ \E i \in 1..Len(d.pages) : i <= 3 /\ d.pages[i].kind = "raise"

ReadFails(d) ==
    \/ ~d.openable
    \/ \E i \in 1..Len(d.pages) : d.pages[i].kind = "raise"

\* C9: a failure to open or read the bytes during scan detection makes
\* is_scanned_pdf return Scanned, and the run ends in the scanned rejection with no
\* inference call; no failure of opening or reading, at scan detection or at full
\* extraction, leaves process_document uncaught.
C9_UnreadableIsScanned ==
    /\ pc # "crashed"
    /\ (clicked /\ pc # "pd_scan" /\ ScanDetectionFails(uploaded)) =>
           /\ scanRes.ret
           /\ ~scanRes.exc
           /\ pc \in AfterRun
           /\ ret.kind = "none"
           /\ "scanned" \in errors
           /\ calls = <<>>
    /\ (clicked /\ pc \in AfterRun /\ ReadFails(uploaded)) =>
           /\ ret.kind = "none"
           /\ calls = <<>>

C9_Witness ==
    /\ pc = "returned"
    /\ uploaded = DocBadSample
    /\ scanRes.error
    /\ errors = {"check_pdf", "scanned"}

\* C10: the processing flag is set only while process_document runs; it is reset on
\* every exit path, so it is false at main's in-progress check and the in-progress
\* message is never displayed.
C10_ProcessingOnlyDuringRun ==
    /\ processing => pc \in InRun
    /\ pc = "main_tail" => ~processing
    /\ ~infoShown

C10_Witness ==
    /\ pc = "main_tail"
    /\ clicked
    /\ "processing" \in errors
    /\ inserts = 1
    /\ ~processing

====
